---- MODULE Spec2Model ----
(***************************************************************************)
(* chbreak.c: break out of a chroot as root using the chdir("..")          *)
(* technique.  The program is one sequential main(); the model follows it  *)
(* statement by statement.  The kernel state the system calls act on (the  *)
(* directory tree, the process's root directory and working directory,     *)
(* the privilege of the caller) is part of the state.                      *)
(*                                                                         *)
(* A directory or file is named by its real path from the true root, a     *)
(* sequence of names; <<>> is the true root.                               *)
(***************************************************************************)
EXTENDS Integers, Sequences, FiniteSets, TLC

(* ------------------------------ bounds --------------------------------- *)

\* Depth of the deepest directory of the initial tree (a chain below "/").
MaxDepth == 2

\* A new filesystem is mounted every MountEvery levels of the chain, so that
\* two directories may share st_ino and differ in st_dev.
MountEvery == 2

\* How many times the staging-directory step is executed in SpecPrep.
MaxRuns == 2

(* ------------------------- program constants --------------------------- *)

NEED_FCHDIR == 0

\* #ifdef NEED_FCHDIR tests that the macro is defined, not its value.
IfdefNEED_FCHDIR == TRUE

TEMP_DIR == "waterbuffalo"

ClimbCount == 1024

NoShellFlag == "--no-shell"

(* ------------------------------ messages ------------------------------- *)

MsgStat1 == "Failed to stat1 /"
MsgMkdir == "Failed to create waterbuffalo"
MsgStatTemp == "Failed to stat waterbuffalo"
MsgNotDir == "Error - waterbuffalo is not a directory!"
MsgOpen == "Failed to open . for reading"
MsgChroot == "Failed to chroot to waterbuffalo"
MsgNotRoot == "Not running as root. Breaking out of chroot works as root."
MsgFchdir == "Failed to fchdir"
MsgStat2 == "Failed to stat2 /"
MsgDidNotWork == "Breaking out of the chroot did not work."
MsgBrokenOut == "Broken out of the chroot."
MsgOpendir == "Failed to opendir /"
MsgDirBanner == "dir /:"
MsgRunShell == "Running interactive shell outside chroot."
MsgExec == "Failed to exec"

(* --------------------------- the file system --------------------------- *)

RealRoot == <<>>

DirName == "d"

RECURSIVE Chain(_)
\* The directory at depth n of the initial tree: /d/d/.../d.
Chain(n) == IF n = 0 THEN RealRoot ELSE Append(Chain(n - 1), DirName)

Depths == 0 .. MaxDepth

BinDir == <<"bin">>
BinSh == <<"bin", "sh">>

Parent(p) == IF p = <<>> THEN p ELSE SubSeq(p, 1, Len(p) - 1)

Max(S) == CHOOSE m \in S : \A n \in S : n <= m

Entry(k, d, i) == [kind |-> k, dev |-> d, ino |-> i]

\* st_ino not yet used on device d.
FreshIno(f, d) == 1 + Max({0} \cup {f[p].ino : p \in {q \in DOMAIN f : f[q].dev = d}})

ChainEntry(n) == Entry("dir", n \div MountEvery, 2 + (n % MountEvery))

\* The tree before the program runs: the chain of directories, /bin/sh on the
\* true root, and in the starting directory cwd0 possibly an entry TEMP_DIR.
BaseFs ==
  LET chain == [p \in {Chain(n) : n \in Depths} |-> ChainEntry(Len(p))]
      bin == BinDir :> Entry("dir", 0, MountEvery + 2)
      sh == BinSh :> Entry("file", 0, MountEvery + 3)
  IN chain @@ bin @@ sh

InitFs(cwd0, kind) ==
  IF kind = "absent" THEN BaseFs
  ELSE BaseFs @@ (Append(cwd0, TEMP_DIR) :> Entry(kind, BaseFs[cwd0].dev, FreshIno(BaseFs, BaseFs[cwd0].dev)))

Exists(f, p) == p \in DOMAIN f

IsDir(f, p) == Exists(f, p) /\ f[p].kind = "dir"

\* struct stat as far as the program reads it: st_dev, st_ino, st_mode.
StatBuf(f, p) == [st_dev |-> f[p].dev, st_ino |-> f[p].ino, isdir |-> f[p].kind = "dir"]

NoStat == [st_dev |-> -1, st_ino |-> -1, isdir |-> FALSE]

\* TEMP_DIR taken as a path from the root directory, as "/waterbuffalo" would be.
TempDirPathAbsolute(rootdir, wd) == Append(rootdir, TEMP_DIR)

\* The directory entry the path TEMP_DIR names for a process with root
\* directory rootdir and working directory wd: the path is relative.
TempDirPath(rootdir, wd) == Append(wd, TEMP_DIR)

\* mkdir() taken for a call that creates a regular file, as creat() would.
MkdirAsFile(f, p) ==
  f @@ (p :> Entry("file", f[Parent(p)].dev, FreshIno(f, f[Parent(p)].dev)))

\* mkdir(2) of real path p, a directory on the device of its parent.
Mkdir(f, p) ==
  f @@ (p :> Entry("dir", f[Parent(p)].dev, FreshIno(f, f[Parent(p)].dev)))

\* chdir(".."): the kernel stays put at the process's root directory and at
\* the root of the mount namespace, and moves to the parent otherwise.
DotDot(wd, rootdir, ns) == IF wd = rootdir \/ wd = ns THEN wd ELSE Parent(wd)

\* The names readdir() returns for directory p.
Listing(f, p) ==
  {".", ".."} \cup {q[Len(q)] : q \in {r \in DOMAIN f : r # <<>> /\ Parent(r) = p}}

(* ------------------------------ C helpers ------------------------------ *)

Null == "(null)"

\* argv[k] of the NULL-terminated argument vector.
ArgvAt(a, k) == IF k + 1 <= Len(a) THEN a[k + 1] ELSE Null

\* strcmp() as far as the program uses it: zero exactly for equal strings.
Strcmp(s, t) == IF s = t THEN 0 ELSE 1

\* The argument vectors tried.
Argvs ==
  { <<>>, <<"chbreak">>, <<"chbreak", NoShellFlag>>, <<"chbreak", "-i">>,
    <<"chbreak", "-i", NoShellFlag>> }

\* Line 179 with the strcmp() test turned around.
WantShellInverted(a) ==
  ArgvAt(a, 0) = Null \/ ArgvAt(a, 1) = Null \/ Strcmp(ArgvAt(a, 1), NoShellFlag) = 0

\* The condition of line 179: true when the shell is to be launched.
WantShell(a) ==
  ArgvAt(a, 0) = Null \/ ArgvAt(a, 1) = Null \/ Strcmp(ArgvAt(a, 1), NoShellFlag) # 0

\* Line 156 with the st_ino test turned around.
SameRootInoDiffers(s1, s2) == s1.st_dev = s2.st_dev /\ s1.st_ino # s2.st_ino

\* Line 156 with the st_dev test turned around.
SameRootDevDiffers(s1, s2) == s1.st_dev # s2.st_dev /\ s1.st_ino = s2.st_ino

\* The comparison of line 156.
SameRoot(s1, s2) == s1.st_dev = s2.st_dev /\ s1.st_ino = s2.st_ino

RECURSIVE SeqOf(_)
\* The entries in the order readdir() happens to return them.
SeqOf(S) == IF S = {} THEN <<>> ELSE LET e == CHOOSE e \in S : TRUE IN <<e>> \o SeqOf(S \ {e})

Range(s) == {s[i] : i \in DOMAIN s}

(* -------------------------------- state -------------------------------- *)

VARIABLES
  fs,          \* the directory tree: real path -> entry
  nsroot,      \* root of the mount namespace ("/" of a pivot_root jail)
  cap,         \* the caller holds the privilege chroot(2) requires
  euid,        \* geteuid()
  relocates,   \* this kernel's chroot() moves the working directory too
  stdoutMode,  \* buffering of stdout: "line" (terminal) or "full" (pipe, file)
  root,        \* the process's root directory (confinement boundary)
  cwd,         \* the process's working directory
  fds,         \* open directory descriptors: pairs <<fd, directory>>
  pc,          \* position in main()
  x,
  dir_fd,
  sbuf,
  sbuf1,
  sbuf2,
  errno,
  argv,
  exitStatus,
  err,         \* what has reached the error stream
  out,         \* what has reached the output stream
  outbuf,      \* stdout text still in the stdio buffer
  B0,          \* the root directory the process started with
  cwd0,        \* the working directory the process started in
  fs0,         \* the directory tree the process started on
  run,         \* how many times the staging-directory step was entered
  steps,       \* the calls made so far, in order
  failedCalls  \* the calls that returned an error (ENOENT of the staging
               \* status query, which means "absent", is not one)

envVars == <<nsroot, cap, euid, relocates, stdoutMode, argv, B0, cwd0, fs0, run>>

vars == <<fs, nsroot, cap, euid, relocates, stdoutMode, root, cwd, fds, pc, x,
          dir_fd, sbuf, sbuf1, sbuf2, errno, argv, exitStatus, err, out, outbuf,
          B0, cwd0, fs0, run, steps, failedCalls>>

StagingKinds == {"absent", "dir", "file"}

Init ==
  /\ \E b \in Depths : \E c \in b .. MaxDepth : \E k \in StagingKinds :
       /\ B0 = Chain(b)
       /\ cwd0 = Chain(c)
       /\ fs0 = InitFs(Chain(c), k)
  /\ nsroot \in {RealRoot, B0}
  /\ cap \in BOOLEAN
  /\ euid \in {0, 1000}
  /\ relocates \in BOOLEAN
  /\ stdoutMode \in {"line", "full"}
  /\ argv \in Argvs
  /\ fs = fs0
  /\ run = 1
  /\ root = B0
  /\ cwd = cwd0
  /\ fds = {}
  /\ pc = "stat1"
  /\ x = 0
  /\ dir_fd = -1
  /\ sbuf = NoStat
  /\ sbuf1 = NoStat
  /\ sbuf2 = NoStat
  /\ errno = "0"
  /\ exitStatus = -1
  /\ err = <<>>
  /\ out = <<>>
  /\ outbuf = <<>>
  /\ steps = <<>>
  /\ failedCalls = {}

(* ------------------------------- actions ------------------------------- *)

\* exit(status), and return from main(): stdio flushes its buffers and the
\* kernel closes the descriptors.
Exit(status) ==
  /\ pc' = "exited"
  /\ exitStatus' = status
  /\ out' = out \o outbuf
  /\ outbuf' = <<>>
  /\ fds' = {}

\* fprintf(stderr, ...) then exit(1) after call `call` failed with error e.
Fatal(call, e, msgs) ==
  /\ errno' = e
  /\ failedCalls' = failedCalls \cup {call}
  /\ err' = err \o msgs
  /\ Exit(1)

\* printf() of text ending in a newline.
Printf(lines) ==
  IF stdoutMode = "line"
    THEN out' = out \o lines /\ outbuf' = outbuf
    ELSE outbuf' = outbuf \o lines /\ out' = out

\* The statement after the staging directory is ensured (lines 85-103).
AfterStaging == IF IfdefNEED_FCHDIR THEN "open" ELSE "chroot1"

\* Lines 113-132 left out, as when NEED_FCHDIR is not defined.
AfterChrootNoFchdir == "for"

\* The statement after the first chroot() (lines 113-146).
AfterChroot == IF IfdefNEED_FCHDIR THEN "fchdir" ELSE "for"

\* Lines 60-63.
Stat1 ==
  /\ pc = "stat1"
  /\ steps' = Append(steps, "stat1")
  /\ \E fail \in BOOLEAN :
       IF fail
         THEN /\ Fatal("stat1", "EIO", <<MsgStat1>>)
              /\ UNCHANGED sbuf1
         ELSE /\ sbuf1' = StatBuf(fs, root)
              /\ pc' = "stat_temp"
              /\ UNCHANGED <<errno, failedCalls, err, exitStatus, out, outbuf, fds>>
  /\ UNCHANGED <<fs, root, cwd, x, dir_fd, sbuf, sbuf2>>
  /\ UNCHANGED envVars

\* Lines 68-79 without the S_ISDIR() branch of lines 80-83.
StatTempNoDirCheck ==
  /\ pc = "stat_temp"
  /\ steps' = Append(steps, "stat_temp")
  /\ \E fail \in BOOLEAN :
       IF fail
         THEN /\ Fatal("stat_temp", "EACCES", <<MsgStatTemp>>)
              /\ UNCHANGED sbuf
         ELSE IF ~Exists(fs, TempDirPath(root, cwd))
           THEN /\ errno' = "ENOENT"
                /\ pc' = "mkdir"
                /\ UNCHANGED <<sbuf, failedCalls, err, exitStatus, out, outbuf, fds>>
           ELSE /\ sbuf' = StatBuf(fs, TempDirPath(root, cwd))
                /\ pc' = AfterStaging
                /\ UNCHANGED <<err, exitStatus, out, outbuf, fds, errno, failedCalls>>
  /\ UNCHANGED <<fs, root, cwd, x, dir_fd, sbuf1, sbuf2>>
  /\ UNCHANGED envVars

\* Lines 68-83 with mkdir() attempted whatever stat() answered.
StatTempAlwaysMkdir ==
  /\ pc = "stat_temp"
  /\ steps' = Append(steps, "stat_temp")
  /\ \E fail \in BOOLEAN :
       IF fail
         THEN /\ Fatal("stat_temp", "EACCES", <<MsgStatTemp>>)
              /\ UNCHANGED sbuf
         ELSE /\ sbuf' = IF Exists(fs, TempDirPath(root, cwd))
                           THEN StatBuf(fs, TempDirPath(root, cwd)) ELSE sbuf
              /\ pc' = "mkdir"
              /\ UNCHANGED <<errno, failedCalls, err, exitStatus, out, outbuf, fds>>
  /\ UNCHANGED <<fs, root, cwd, x, dir_fd, sbuf1, sbuf2>>
  /\ UNCHANGED envVars

\* Lines 68-69 and 75-83: the status query of the staging directory.
StatTemp ==
  /\ pc = "stat_temp"
  /\ steps' = Append(steps, "stat_temp")
  /\ \E fail \in BOOLEAN :
       IF fail
         THEN /\ Fatal("stat_temp", "EACCES", <<MsgStatTemp>>)
              /\ UNCHANGED sbuf
         ELSE IF ~Exists(fs, TempDirPath(root, cwd))
           THEN /\ errno' = "ENOENT"
                /\ pc' = "mkdir"
                /\ UNCHANGED <<sbuf, failedCalls, err, exitStatus, out, outbuf, fds>>
           ELSE /\ sbuf' = StatBuf(fs, TempDirPath(root, cwd))
                /\ IF ~sbuf'.isdir
                     THEN /\ err' = Append(err, MsgNotDir)
                          /\ Exit(1)
                     ELSE /\ pc' = AfterStaging
                          /\ UNCHANGED <<err, exitStatus, out, outbuf, fds>>
                /\ UNCHANGED <<errno, failedCalls>>
  /\ UNCHANGED <<fs, root, cwd, x, dir_fd, sbuf1, sbuf2>>
  /\ UNCHANGED envVars

\* Lines 70-74.
MkdirTemp ==
  /\ pc = "mkdir"
  /\ steps' = Append(steps, "mkdir")
  /\ \E fail \in BOOLEAN :
       IF fail \/ Exists(fs, TempDirPath(root, cwd))
         THEN /\ Fatal("mkdir", IF fail THEN "EACCES" ELSE "EEXIST", <<MsgMkdir>>)
              /\ UNCHANGED fs
         ELSE /\ fs' = Mkdir(fs, TempDirPath(root, cwd))
              /\ pc' = AfterStaging
              /\ UNCHANGED <<errno, failedCalls, err, exitStatus, out, outbuf, fds>>
  /\ UNCHANGED <<root, cwd, x, dir_fd, sbuf, sbuf1, sbuf2>>
  /\ UNCHANGED envVars

\* Lines 93-97.
OpenDot ==
  /\ pc = "open"
  /\ steps' = Append(steps, "open")
  /\ \E fail \in BOOLEAN :
       IF fail
         THEN /\ Fatal("open", "EMFILE", <<MsgOpen>>)
              /\ dir_fd' = -1
         ELSE /\ dir_fd' = 3
              /\ fds' = fds \cup {<<3, cwd>>}
              /\ pc' = "chroot1"
              /\ UNCHANGED <<errno, failedCalls, err, exitStatus, out, outbuf>>
  /\ UNCHANGED <<fs, root, cwd, x, sbuf, sbuf1, sbuf2>>
  /\ UNCHANGED envVars

\* errno of a failing chroot(2) on real path p.
ChrootErrno(f, p, capable) ==
  IF ~Exists(f, p) THEN "ENOENT"
  ELSE IF ~IsDir(f, p) THEN "ENOTDIR"
  ELSE IF ~capable THEN "EPERM"
  ELSE "EIO"

\* Lines 104-109 without the geteuid() test.
ChrootFailMsgsAlways(uid) == <<MsgChroot, MsgNotRoot>>

\* Lines 104-109: what a failed first chroot() writes to stderr.
ChrootFailMsgs(uid) == IF uid # 0 THEN <<MsgChroot, MsgNotRoot>> ELSE <<MsgChroot>>

\* Lines 103-111 without the exit(1) of line 110.
Chroot1NoExit ==
  /\ pc = "chroot1"
  /\ steps' = Append(steps, "chroot1")
  /\ \E fail \in BOOLEAN :
       IF ~cap \/ fail \/ ~IsDir(fs, TempDirPath(root, cwd))
         THEN /\ errno' = ChrootErrno(fs, TempDirPath(root, cwd), cap)
              /\ failedCalls' = failedCalls \cup {"chroot1"}
              /\ err' = err \o ChrootFailMsgs(euid)
              /\ UNCHANGED <<root, cwd>>
         ELSE /\ root' = TempDirPath(root, cwd)
              /\ cwd' = IF relocates THEN root' ELSE cwd
              /\ UNCHANGED <<errno, failedCalls, err>>
  /\ pc' = AfterChroot
  /\ UNCHANGED <<fs, x, dir_fd, sbuf, sbuf1, sbuf2, exitStatus, out, outbuf, fds>>
  /\ UNCHANGED envVars

\* Lines 103-111.
Chroot1 ==
  /\ pc = "chroot1"
  /\ steps' = Append(steps, "chroot1")
  /\ \E fail \in BOOLEAN :
       IF ~cap \/ fail \/ ~IsDir(fs, TempDirPath(root, cwd))
         THEN /\ Fatal("chroot1", ChrootErrno(fs, TempDirPath(root, cwd), cap), ChrootFailMsgs(euid))
              /\ UNCHANGED <<root, cwd>>
         ELSE /\ root' = TempDirPath(root, cwd)
              /\ cwd' = IF relocates THEN root' ELSE cwd
              /\ pc' = AfterChroot
              /\ UNCHANGED <<errno, failedCalls, err, exitStatus, out, outbuf, fds>>
  /\ UNCHANGED <<fs, x, dir_fd, sbuf, sbuf1, sbuf2>>
  /\ UNCHANGED envVars

\* Lines 126-131.
Fchdir ==
  /\ pc = "fchdir"
  /\ steps' = Append(steps, "fchdir")
  /\ \E fail \in BOOLEAN :
       IF fail
         THEN /\ Fatal("fchdir", "EIO", <<MsgFchdir>>)
              /\ UNCHANGED cwd
         ELSE /\ cwd' = (CHOOSE d \in fds : d[1] = dir_fd)[2]
              /\ fds' = {d \in fds : d[1] # dir_fd}
              /\ pc' = "for"
              /\ UNCHANGED <<errno, failedCalls, err, exitStatus, out, outbuf>>
  /\ UNCHANGED <<fs, root, x, dir_fd, sbuf, sbuf1, sbuf2>>
  /\ UNCHANGED envVars

\* Line 146, for(x=0; ...
ForInit ==
  /\ pc = "for"
  /\ x' = 0
  /\ pc' = "climb"
  /\ UNCHANGED <<fs, root, cwd, fds, dir_fd, sbuf, sbuf1, sbuf2, errno, exitStatus,
                 err, out, outbuf, steps, failedCalls>>
  /\ UNCHANGED envVars

\* Lines 146-148 with chdir(".") for chdir("..").
ClimbDot ==
  /\ pc = "climb"
  /\ x < ClimbCount
  /\ steps' = IF x = 0 THEN Append(steps, "climb") ELSE steps
  /\ \E fail \in BOOLEAN :
       IF fail
         THEN /\ errno' = "EIO"
              /\ failedCalls' = failedCalls \cup {"chdir"}
              /\ UNCHANGED cwd
         ELSE /\ cwd' = cwd
              /\ UNCHANGED <<errno, failedCalls>>
  /\ x' = x + 1
  /\ UNCHANGED <<fs, root, fds, pc, dir_fd, sbuf, sbuf1, sbuf2, exitStatus, err, out, outbuf>>
  /\ UNCHANGED envVars

\* Lines 146-148, one iteration: chdir("..") with its result ignored.
Climb ==
  /\ pc = "climb"
  /\ x < ClimbCount
  /\ steps' = IF x = 0 THEN Append(steps, "climb") ELSE steps
  /\ \E fail \in BOOLEAN :
       IF fail
         THEN /\ errno' = "EIO"
              /\ failedCalls' = failedCalls \cup {"chdir"}
              /\ UNCHANGED cwd
         ELSE /\ cwd' = DotDot(cwd, root, nsroot)
              /\ UNCHANGED <<errno, failedCalls>>
  /\ x' = x + 1
  /\ UNCHANGED <<fs, root, fds, pc, dir_fd, sbuf, sbuf1, sbuf2, exitStatus, err, out, outbuf>>
  /\ UNCHANGED envVars

\* Line 149: chroot(".") with its result ignored.
Chroot2 ==
  /\ pc = "climb"
  /\ ~(x < ClimbCount)
  /\ steps' = Append(steps, "chroot2")
  /\ \E fail \in BOOLEAN :
       IF ~cap \/ fail
         THEN /\ errno' = ChrootErrno(fs, cwd, cap)
              /\ failedCalls' = failedCalls \cup {"chroot2"}
              /\ UNCHANGED root
         ELSE /\ root' = cwd
              /\ UNCHANGED <<errno, failedCalls>>
  /\ pc' = "stat2"
  /\ UNCHANGED <<fs, cwd, fds, x, dir_fd, sbuf, sbuf1, sbuf2, exitStatus, err, out, outbuf>>
  /\ UNCHANGED envVars

\* Lines 151-155.
Stat2 ==
  /\ pc = "stat2"
  /\ steps' = Append(steps, "stat2")
  /\ \E fail \in BOOLEAN :
       IF fail
         THEN /\ Fatal("stat2", "EIO", <<MsgStat2>>)
              /\ UNCHANGED sbuf2
         ELSE /\ sbuf2' = StatBuf(fs, root)
              /\ out' = out \o outbuf
              /\ outbuf' = <<>>
              /\ pc' = "verify"
              /\ UNCHANGED <<errno, failedCalls, err, exitStatus, fds>>
  /\ UNCHANGED <<fs, root, cwd, x, dir_fd, sbuf, sbuf1>>
  /\ UNCHANGED envVars

\* Lines 156-161.
Verify ==
  /\ pc = "verify"
  /\ steps' = Append(steps, "verify")
  /\ IF SameRoot(sbuf1, sbuf2)
       THEN /\ err' = Append(err, MsgDidNotWork)
            /\ Exit(1)
       ELSE /\ err' = Append(err, MsgBrokenOut)
            /\ pc' = "list"
            /\ UNCHANGED <<exitStatus, out, outbuf, fds>>
  /\ UNCHANGED <<fs, root, cwd, x, dir_fd, sbuf, sbuf1, sbuf2, errno, failedCalls>>
  /\ UNCHANGED envVars

\* Lines 166-178.
ListRoot ==
  /\ pc = "list"
  /\ steps' = Append(steps, "list")
  /\ \E fail \in BOOLEAN :
       IF fail
         THEN Fatal("opendir", "EMFILE", <<MsgOpendir>>)
         ELSE /\ Printf(<<MsgDirBanner>> \o SeqOf(Listing(fs, root)))
              /\ pc' = "handoff"
              /\ UNCHANGED <<errno, failedCalls, err, exitStatus, fds>>
  /\ UNCHANGED <<fs, root, cwd, x, dir_fd, sbuf, sbuf1, sbuf2>>
  /\ UNCHANGED envVars

\* Lines 179-186.
Handoff ==
  /\ pc = "handoff"
  /\ IF WantShell(argv)
       THEN /\ steps' = Append(steps, "execl")
            /\ \E fail \in BOOLEAN :
                 IF fail \/ ~Exists(fs, root \o BinSh)
                   THEN Fatal("execl", IF fail THEN "EIO" ELSE "ENOENT",
                              <<MsgRunShell, MsgExec>>)
                   ELSE /\ err' = Append(err, MsgRunShell)
                        /\ pc' = "shell"
                        /\ UNCHANGED <<errno, failedCalls, exitStatus, out, outbuf, fds>>
       ELSE /\ steps' = Append(steps, "return")
            /\ Exit(0)
            /\ UNCHANGED <<errno, failedCalls, err>>
  /\ UNCHANGED <<fs, root, cwd, x, dir_fd, sbuf, sbuf1, sbuf2>>
  /\ UNCHANGED envVars

Next ==
  \/ Stat1
  \/ StatTemp
  \/ MkdirTemp
  \/ OpenDot
  \/ Chroot1
  \/ Fchdir
  \/ ForInit
  \/ Climb
  \/ Chroot2
  \/ Stat2
  \/ Verify
  \/ ListRoot
  \/ Handoff

Spec == Init /\ [][Next]_vars

\* The staging-directory step (lines 68-83) is entered a second time, by the
\* same process state (root and working directory as they are: the step
\* changes neither), on the directory tree its first execution left behind.
PrepAgain ==
  /\ pc = AfterStaging
  /\ run < MaxRuns
  /\ run' = run + 1
  /\ fs0' = fs
  /\ pc' = "stat_temp"
  /\ sbuf' = NoStat
  /\ errno' = "0"
  /\ steps' = <<>>
  /\ UNCHANGED <<fs, nsroot, cap, euid, relocates, stdoutMode, argv, B0, cwd0,
                 root, cwd, fds, x, dir_fd, sbuf1, sbuf2, exitStatus, err, out,
                 outbuf, failedCalls>>

NextPrep ==
  \/ Stat1
  \/ StatTemp
  \/ MkdirTemp
  \/ PrepAgain

SpecPrep == Init /\ [][NextPrep]_vars

(* ------------------------------ properties ----------------------------- *)

Terminated == pc \in {"exited", "shell"}

Called(c) == c \in Range(steps)

\* The entry TEMP_DIR names in the starting directory.
Staging == Append(cwd0, TEMP_DIR)

\* ".." at the starting root directory stays there: the jail is the root of
\* its mount namespace, or the process is not jailed at all.
Immune == nsroot = B0

\* C1: for every starting root directory B0 other than the true root, a run
\* that has written "Broken out of the chroot." has the true root as its root
\* directory.
C1_SuccessNoticeMeansRealRoot ==
  (B0 # RealRoot /\ MsgBrokenOut \in Range(err)) => root = RealRoot

\* C2, as claimed: in an immune jail every run in which no system call fails
\* ends with "Breaking out of the chroot did not work." and a non-zero status,
\* and never writes the success notice, lists "/" or launches the shell.
C2_ImmuneAlwaysDidNotWork ==
  (Immune /\ failedCalls = {}) =>
    /\ MsgBrokenOut \notin Range(err)
    /\ ~Called("list")
    /\ ~Called("execl")
    /\ Terminated => (pc = "exited" /\ exitStatus # 0 /\ err = <<MsgDidNotWork>>)

\* C2, amended: the same for every such run whose staging path is absent or a
\* directory when the program starts.
C2_ImmuneDidNotWorkUnlessCollision ==
  (Immune /\ failedCalls = {}) =>
    /\ MsgBrokenOut \notin Range(err)
    /\ ~Called("list")
    /\ ~Called("execl")
    /\ (Terminated /\ (Exists(fs0, Staging) => fs0[Staging].kind = "dir")) =>
         (pc = "exited" /\ exitStatus # 0 /\ err = <<MsgDidNotWork>>)

C2_Witness ==
  /\ Immune
  /\ B0 # RealRoot
  /\ cwd0 # B0
  /\ failedCalls = {}
  /\ pc = "exited"
  /\ x = ClimbCount
  /\ err = <<MsgDidNotWork>>

\* C3: once the first chroot() has failed the run has exited with a non-zero
\* status, the root directory is still B0, and no later step (fchdir, climb,
\* second chroot, second stat, notice, listing, exec) has been made.
C3_ChrootDeniedAborts ==
  ("chroot1" \in failedCalls) =>
    /\ pc = "exited"
    /\ exitStatus # 0
    /\ root = B0
    /\ steps[Len(steps)] = "chroot1"
    /\ Range(steps) \cap {"fchdir", "climb", "chroot2", "stat2", "verify", "list", "execl", "return"} = {}
    /\ MsgBrokenOut \notin Range(err)
    /\ out = <<>>
    /\ outbuf = <<>>

C3_Witness ==
  /\ "chroot1" \in failedCalls
  /\ ~cap
  /\ errno = "EPERM"
  /\ pc = "exited"

\* C4: when TEMP_DIR exists in the starting directory and is not a directory,
\* the run exits with a non-zero status without ever calling chroot(), and the
\* root directory, the working directory and the directory tree are unchanged.
C4_CollisionAbortsBeforeChroot ==
  (Exists(fs0, Staging) /\ fs0[Staging].kind # "dir") =>
    /\ pc \in {"stat1", "stat_temp", "exited"}
    /\ pc = "exited" => exitStatus # 0
    /\ ~Called("chroot1")
    /\ ~Called("chroot2")
    /\ root = B0
    /\ cwd = cwd0
    /\ fs = fs0

C4_Witness ==
  /\ Exists(fs0, Staging)
  /\ fs0[Staging].kind = "file"
  /\ pc = "exited"
  /\ err = <<MsgNotDir>>

\* C5: a step in which a system call returns an error ends the run at once
\* with a non-zero status.
C5_EveryFailedCallIsFatal ==
  [][failedCalls' # failedCalls => (pc' = "exited" /\ exitStatus' # 0)]_vars

\* C6, as claimed: when the first chroot() fails with EPERM the hint is
\* written and the run exits with a non-zero status, whatever geteuid() is.
C6_HintWheneverDenied ==
  ("chroot1" \in failedCalls /\ errno = "EPERM") =>
    (MsgNotRoot \in Range(err) /\ pc = "exited" /\ exitStatus # 0)

\* C6, amended: when the first chroot() fails with EPERM the run reports the
\* failure and exits with a non-zero status, and the hint is written exactly
\* when the effective user id is not 0.
C6_HintIffNotRoot ==
  ("chroot1" \in failedCalls /\ errno = "EPERM") =>
    /\ pc = "exited"
    /\ exitStatus # 0
    /\ err[1] = MsgChroot
    /\ (MsgNotRoot \in Range(err)) <=> (euid # 0)

C6_Witness ==
  /\ "chroot1" \in failedCalls
  /\ errno = "EPERM"
  /\ euid # 0
  /\ err = <<MsgChroot, MsgNotRoot>>

\* The first positional argument is the literal "--no-shell".
NoShellRequested == Len(argv) >= 2 /\ argv[2] = "--no-shell"

\* C7: exit status 0 only after the verification found differing snapshots and
\* with the handoff suppressed; the handoff is suppressed exactly when the
\* first positional argument is "--no-shell"; every other exit is non-zero.
C7_ZeroOnlyVerifiedNoShell ==
  /\ (pc = "exited" /\ exitStatus = 0) =>
       /\ MsgBrokenOut \in Range(err)
       /\ (sbuf1.st_dev # sbuf2.st_dev \/ sbuf1.st_ino # sbuf2.st_ino)
       /\ NoShellRequested
       /\ ~Called("execl")
  /\ (Called("execl") \/ Called("return")) => (Called("execl") <=> ~NoShellRequested)
  /\ (pc = "exited" /\ ~Called("return")) => exitStatus # 0
  /\ (pc = "exited" /\ Called("return")) => exitStatus = 0
  /\ pc = "shell" => (Called("execl") /\ "execl" \notin failedCalls)

C7_Witness ==
  /\ pc = "exited"
  /\ exitStatus = 0
  /\ NoShellRequested

\* C8: when the shell has replaced the process image, no stdout text is left
\* in the stdio buffer.
C8_FlushedBeforeExec == pc = "shell" => outbuf = <<>>

\* C9, as claimed: a staging directory the run creates is a child of the root
\* directory the process started with.
C9_CreatedUnderBoundary ==
  fs # fs0 => (DOMAIN fs) \ (DOMAIN fs0) = {Append(B0, TEMP_DIR)}

\* C9, amended: a staging directory the run creates is a child of the working
\* directory the process started in, it is a directory, no entry of that name
\* existed there, and a run that gets past the step without creating it found
\* one there.
C9_CreatedUnderStartingDirectory ==
  /\ fs # fs0 =>
       /\ (DOMAIN fs) \ (DOMAIN fs0) = {Staging}
       /\ fs[Staging].kind = "dir"
       /\ \A p \in DOMAIN fs0 : fs[p] = fs0[p]
  /\ (Called("open") /\ fs = fs0) => Exists(fs0, Staging)

C9_Witness ==
  /\ fs # fs0
  /\ cwd0 # B0
  /\ B0 # RealRoot
  /\ Staging \in DOMAIN fs

\* C10: the staging-directory step executed a second time finds the directory,
\* does not fail, creates nothing and leaves the directory tree as it was.
C10_PrepIdempotent ==
  run > 1 =>
    /\ IsDir(fs0, Staging)
    /\ fs = fs0
    /\ ~Called("mkdir")
    /\ MsgNotDir \notin Range(err)
    /\ MsgMkdir \notin Range(err)
    /\ (Called("stat_temp") /\ "stat_temp" \notin failedCalls) =>
         (pc = AfterStaging /\ sbuf.isdir /\ exitStatus = -1)

C10_Witness ==
  /\ run = 2
  /\ Called("stat_temp")
  /\ pc = AfterStaging
  /\ fs = fs0

Confined == root # RealRoot

EndedWell == pc = "shell" \/ (pc = "exited" /\ exitStatus = 0)

C12_AtMostStagingCreated ==
  [][\/ fs' = fs
     \/ /\ fs = fs0
        /\ DOMAIN fs' = (DOMAIN fs) \cup {Staging}
        /\ Staging \notin DOMAIN fs
        /\ fs'[Staging].kind = "dir"
        /\ \A p \in DOMAIN fs : fs'[p] = fs[p]]_vars

C12_Witness ==
  /\ fs # fs0
  /\ IsDir(fs, Staging)
  /\ Terminated
  /\ Cardinality(DOMAIN fs) = Cardinality(DOMAIN fs0) + 1

\* The order of the calls of main(); mkdir is made only for an absent staging
\* directory, and the last call is execl or the return.
CallOrder ==
  <<"stat1", "stat_temp", "mkdir", "open", "chroot1", "fchdir", "climb",
    "chroot2", "stat2", "verify", "list">>

\* The calls made follow the order of main(): none repeated, none out of
\* order, and none left out but mkdir.
InCallOrder ==
  /\ \E last \in {<<>>, <<"execl">>, <<"return">>} :
       \E n \in 0 .. Len(CallOrder) : \E skip \in BOOLEAN :
         LET pre == SubSeq(CallOrder, 1, n)
             seq == IF skip THEN SelectSeq(pre, LAMBDA c : c # "mkdir") ELSE pre
         IN /\ steps = seq \o last
            /\ last # <<>> => n = Len(CallOrder)
  /\ Called("list") => MsgBrokenOut \in Range(err)
  /\ MsgBrokenOut \in Range(err) =>
       (Called("verify") /\ (sbuf1.st_dev # sbuf2.st_dev \/ sbuf1.st_ino # sbuf2.st_ino))
  /\ (Called("execl") \/ Called("return")) => Called("list")

\* The step of the state machine a call belongs to.
StepOf(c) == IF c = "chdir" THEN "climb" ELSE IF c = "opendir" THEN "list" ELSE c

\* C13: the calls are made in the order of the state machine, none skipped or
\* repeated, and a call is made only when every call before it has succeeded:
\* after a failed call nothing but the abort follows.
C13_StateMachineOrder ==
  /\ InCallOrder
  /\ \A c \in failedCalls : steps[Len(steps)] = StepOf(c)

\* The climb loop has made n iterations, none of which failed, on a kernel
\* where only the true root ends the chain of parents.
Climbed(n) ==
  /\ Called("climb")
  /\ x >= n
  /\ nsroot = RealRoot
  /\ "chdir" \notin failedCalls

\* C14: d climbs from a working directory d levels below the true root reach
\* the true root, and every further climb stays there: after n >= d climbs the
\* working directory is the true root, for ClimbCount climbs as for 2.
C14_ClimbPastRootIsNoOp ==
  /\ Climbed(Len(cwd0)) => cwd = RealRoot
  /\ (Climbed(0) /\ x <= Len(cwd0)) => Len(cwd) = Len(cwd0) - x

C14_Witness ==
  /\ Climbed(ClimbCount)
  /\ Len(cwd0) >= 1
  /\ Len(cwd0) < ClimbCount
  /\ cwd = RealRoot
  /\ pc = "climb"

\* Directory p is directory r or lies below it.
Inside(p, r) == Len(p) >= Len(r) /\ SubSeq(p, 1, Len(r)) = r

\* The nested confinement (lines 103-132) is complete and the climb has not
\* started.
BeforeClimb == pc = "for" \/ (pc = "climb" /\ ~Called("climb"))

\* C15: between the nested confinement and the climb the root directory is
\* the staging directory and the working directory is the directory the
\* process was in before, the parent of the staging directory, which is not
\* inside the root directory; whether or not chroot() moved the working
\* directory.
C15_OutsideNestedBoundary ==
  BeforeClimb =>
    /\ root = Staging
    /\ IsDir(fs, root)
    /\ cwd = cwd0
    /\ cwd = Parent(root)
    /\ ~Inside(cwd, root)

C15_Witness ==
  /\ BeforeClimb
  /\ relocates
  /\ B0 # RealRoot
  /\ cwd0 # B0
  /\ cwd = cwd0

\* C16: with NEED_FCHDIR set to 0 the working directory is never opened and
\* never restored: no descriptor is open at any time, and no run is aborted by
\* a failed open(".") or fchdir().
C16_NoHandleWhenZero ==
  NEED_FCHDIR = 0 =>
    /\ ~Called("open")
    /\ ~Called("fchdir")
    /\ fds = {}
    /\ dir_fd = -1
    /\ failedCalls \cap {"open", "fchdir"} = {}
    /\ MsgOpen \notin Range(err)
    /\ MsgFchdir \notin Range(err)

\* C17, as claimed: a process that starts with the true root as its root
\* directory, and none of whose system calls fails, ends with "Breaking out of
\* the chroot did not work." and a non-zero status, its root directory being
\* the true root and the two snapshots equal.
C17_UnconfinedStartDidNotWork ==
  (B0 = RealRoot /\ failedCalls = {} /\ Terminated) =>
    /\ pc = "exited"
    /\ exitStatus # 0
    /\ err[Len(err)] = MsgDidNotWork
    /\ root = RealRoot
    /\ sbuf2 = sbuf1

\* C17, amended: the same for every such run whose staging path is absent or a
\* directory when the program starts.
C17_UnconfinedStartDidNotWorkUnlessCollision ==
  (B0 = RealRoot /\ failedCalls = {} /\ Terminated /\ (Exists(fs0, Staging) => fs0[Staging].kind = "dir")) =>
    /\ pc = "exited"
    /\ exitStatus # 0
    /\ err[Len(err)] = MsgDidNotWork
    /\ root = RealRoot
    /\ sbuf2 = sbuf1
    /\ sbuf1 = StatBuf(fs0, RealRoot)

C17_Witness ==
  /\ B0 = RealRoot
  /\ cwd0 # RealRoot
  /\ failedCalls = {}
  /\ pc = "exited"
  /\ Called("chroot2")
  /\ root = RealRoot
  /\ err = <<MsgDidNotWork>>

====
